---- MODULE Spec2Model ----
(***************************************************************************)
(* Waitlist signup service (src/api/main.py): the POST /api/waitlist       *)
(* handler, the waitlist table behind it and the Brevo contact sync.       *)
(*                                                                         *)
(* The GET endpoints, the route table and the startup event are modelled  *)
(* next to it (specification SpecApi).                                     *)
(*                                                                         *)
(* Each request is a process that walks through the handler's statements;  *)
(* every database operation runs in its own connection/transaction         *)
(* (get_db_connection), so the steps of concurrent requests interleave at  *)
(* the boundaries of the SQL statements.                                   *)
(***************************************************************************)
EXTENDS Integers, Sequences, FiniteSets, TLC

\* ---------------------------------------------------------------- bounds
NumRequests == 2        \* submissions made in one behaviour
NumGets == 2            \* GET requests / endpoint calls made in one behaviour
MaxTime == 1            \* last value of the wall clock (datetime.now())

Requests == 1..NumRequests
Gets == 1..NumGets

\* ---------------------------------------------------------------- values
\* Python's None, for Optional[str] values (strings are sequences of characters)
None == <<"<None>">>
\* Python's None for a timestamp column / an integer field
NoTime == -1
\* a response body without a count
NoCount == -1

\* HTTP status codes used by the handlers
HTTP_200_OK == 200
HTTP_201_CREATED == 201
HTTP_404_NOT_FOUND == 404
HTTP_409_CONFLICT == 409
HTTP_422_UNPROCESSABLE == 422
HTTP_500_INTERNAL_SERVER_ERROR == 500

\* ---------------------------------------------------------------- strings
\* str.lower() on one character of the alphabet used by the inputs
LowerChar(c) ==
    CASE c = "A" -> "a"
      [] c = "B" -> "b"
      [] c = "C" -> "c"
      [] c = "X" -> "x"
      [] OTHER -> c

\* str.lower()
Lower(s) == [i \in 1..Len(s) |-> LowerChar(s[i])]

RECURSIVE LStrip(_)
LStrip(s) == IF s # <<>> /\ Head(s) = " " THEN LStrip(Tail(s)) ELSE s

RECURSIVE RStrip(_)
RStrip(s) ==
    IF s # <<>> /\ s[Len(s)] = " " THEN RStrip(SubSeq(s, 1, Len(s) - 1)) ELSE s

\* str.strip()
Strip(s) == LStrip(RStrip(s))

\* EmailStr (pydantic): the value is stripped, then must be local@domain with
\* exactly one "@", no blank inside and non-empty parts
EmailStrValid(v) ==
    LET e == Strip(v)
        ats == {i \in 1..Len(e) : e[i] = "@"}
    IN  /\ Cardinality(ats) = 1
        /\ \A i \in 1..Len(e) : e[i] # " "
        /\ e[1] # "@"
        /\ e[Len(e)] # "@"

\* EmailStr (pydantic) hands the stripped address on to the validators
EmailStrValue(v) == Strip(v)

\* mutant: the validator only strips, it does not lower-case
email_must_be_lowercase_NoLower(v) == Strip(v)

\* EmailSubmission.email_must_be_lowercase: v.lower().strip()
email_must_be_lowercase(v) == Strip(Lower(v))

\* EmailSubmission.name_must_be_clean: strip when truthy, else unchanged
name_must_be_clean(v) == IF v # None /\ v # <<>> THEN Strip(v) ELSE v

\* ---------------------------------------------------------------- inputs
\* request bodies a client may POST: {email, name?, referral_source?}
Payloads ==
    { [email |-> <<"a", "@", "x">>, name |-> None, referral_source |-> None],
      [email |-> <<" ", "A", "@", "X", " ">>, name |-> <<" ", "J", " ">>,
       referral_source |-> <<"t", "w">>],
      [email |-> <<"b", "@", "x">>, name |-> <<"J">>, referral_source |-> None],
      [email |-> <<"c", "@", "x">>, name |-> None, referral_source |-> None],
      [email |-> <<"a", " ", "x">>, name |-> None, referral_source |-> None] }

NoPayload == [email |-> None, name |-> None, referral_source |-> None]

\* ids the remote contact API may assign to a created contact (response.id)
ContactIds == {7}

\* str(response.id), for the one-digit ids of ContactIds
StrOfId(n) == << <<"0", "1", "2", "3", "4", "5", "6", "7", "8", "9">>[n + 1] >>

\* replies of contacts_api.create_contact: a response, an ApiException with its
\* status and whether its body says "Contact already exist", or another exception
BrevoReplies ==
    { [kind |-> "response", status |-> 201, already |-> FALSE, id |-> i] : i \in ContactIds }
    \cup { [kind |-> "ApiException", status |-> 400, already |-> TRUE, id |-> 0],
           [kind |-> "ApiException", status |-> 400, already |-> FALSE, id |-> 0],
           [kind |-> "ApiException", status |-> 401, already |-> FALSE, id |-> 0],
           [kind |-> "ApiException", status |-> 404, already |-> FALSE, id |-> 0],
           [kind |-> "Exception", status |-> 0, already |-> FALSE, id |-> 0] }

\* no call of contacts_api.create_contact was made
NoReply == [kind |-> "none", status |-> 0, already |-> FALSE, id |-> 0]

\* ---------------------------------------------------------------- configuration
\* an environment variable that is not set (os.getenv returns its default)
Unset == "<unset>"

\* the environments the process may be started in
Envs ==
    [DATABASE_URL : {Unset, "postgresql://db/waitlist"},
     BREVO_API_KEY : {Unset, "''", "xkeysib-1"},
     BREVO_WAITLIST_ID : {Unset, "0", "12"},
     FRONTEND_URL : {Unset, "https://lavoo.app"}]

\* os.getenv(name, default)
getenv(e, name, default) == IF e[name] = Unset THEN default ELSE e[name]

\* .strip().strip('"').strip("'") on the values of Envs
StripQuotes(v) == IF v = "''" THEN "" ELSE v

\* int() on the values of Envs
IntOf(v) == IF v = "12" THEN 12 ELSE 0

\* class Config: the attributes as evaluated at import
Config(e) ==
    [DATABASE_URL |-> getenv(e, "DATABASE_URL", Unset),
     BREVO_API_KEY |-> StripQuotes(getenv(e, "BREVO_API_KEY", "")),
     BREVO_WAITLIST_ID |-> IntOf(getenv(e, "BREVO_WAITLIST_ID", "0")),
     ALLOWED_ORIGINS |-> <<"http://localhost:5173", "http://localhost:3000",
                           "http://127.0.0.1:5173", getenv(e, "FRONTEND_URL", "")>>]

\* Python truthiness of an Optional[str]
Truthy(v) == v # Unset /\ v # ""

\* mutant: the list id is not validated
validate_NoListIdCheck(cfg) ==
    LET errors == (IF ~Truthy(cfg.DATABASE_URL) THEN {"DATABASE_URL is not set"} ELSE {})
                  \cup (IF ~Truthy(cfg.BREVO_API_KEY) THEN {"BREVO_API_KEY is not set"} ELSE {})
        origins == SelectSeq(cfg.ALLOWED_ORIGINS, LAMBDA o : o # "")
    IN  [valid |-> errors = {},
         errors |-> errors,
         warnings |-> IF origins = <<>> THEN {"No CORS origins configured"} ELSE {},
         ALLOWED_ORIGINS |-> origins]

\* Config.validate: the errors and warnings, and the filtered origin list
validate(cfg) ==
    LET errors == (IF ~Truthy(cfg.DATABASE_URL) THEN {"DATABASE_URL is not set"} ELSE {})
                  \cup (IF ~Truthy(cfg.BREVO_API_KEY) THEN {"BREVO_API_KEY is not set"} ELSE {})
                  \cup (IF cfg.BREVO_WAITLIST_ID = 0
                        THEN {"BREVO_WAITLIST_ID is not set or invalid"} ELSE {})
        origins == SelectSeq(cfg.ALLOWED_ORIGINS, LAMBDA o : o # "")
    IN  [valid |-> errors = {},
         errors |-> errors,
         warnings |-> IF origins = <<>> THEN {"No CORS origins configured"} ELSE {},
         ALLOWED_ORIGINS |-> origins]

\* ---------------------------------------------------------------- exceptions
\* how a store operation may go: it works ("ok"), psycopg2.connect raises and
\* there is no connection ("down"), a statement or the commit raises a psycopg2
\* error and the rollback works ("error"), or the connection is lost and the
\* rollback raises as well ("lost")
StoreOutcomes == {"ok", "down", "error", "lost"}

\* the outcomes of a statement or commit on a connection that was established
StatementOutcomes == StoreOutcomes \ {"down"}

NoExc == [type |-> "None", status_code |-> 0, detail |-> ""]

HTTPException(code, text) == [type |-> "HTTPException", status_code |-> code, detail |-> text]

\* psycopg2.IntegrityError (unique violation) and psycopg2.OperationalError
\* (connection lost, server down); both derive from psycopg2.Error
IntegrityError == [type |-> "IntegrityError", status_code |-> 0, detail |-> "23505"]
OperationalError == [type |-> "OperationalError", status_code |-> 0, detail |-> "08006"]

\* the psycopg2 error behind a store outcome
ExcOf(outcome) == IF outcome = "ok" THEN NoExc ELSE OperationalError

IsPsycopg2Error(exc) == exc.type \in {"IntegrityError", "OperationalError"}

\* get_db_connection: what leaves the context manager when `exc` was raised by
\* connect, inside the with-body or by commit (the generator's except clauses);
\* when the connection is gone conn.rollback() raises in turn (rollback_ok is
\* false) and that psycopg2 error leaves the except clause instead
get_db_connection(exc, rollback_ok) ==
    CASE exc.type = "None" -> NoExc
      [] ~rollback_ok -> OperationalError
      [] IsPsycopg2Error(exc) ->
            HTTPException(HTTP_500_INTERNAL_SERVER_ERROR, "Database operation failed")
      [] OTHER ->
            HTTPException(HTTP_500_INTERNAL_SERVER_ERROR, "An unexpected error occurred")

\* mutant: the connection is closed only after a commit
ConnectionExit_LeakOnError(connected, exc) ==
    [committed |-> connected /\ exc.type = "None",
     rollback |-> connected /\ exc.type # "None",
     closed |-> connected /\ exc.type = "None"]

\* get_db_connection, what has been done with the connection when the block is
\* left with `exc` (None: normally): commit after the body, conn.rollback() in
\* the except clauses, conn.close() in the finally clause, each only `if conn`
ConnectionExit(connected, exc) ==
    [committed |-> connected /\ exc.type = "None",
     rollback |-> connected /\ exc.type # "None",
     closed |-> connected]

\* the except clauses of DatabaseService.add_waitlist_entry, applied to what
\* leaves its `with get_db_connection()` block
add_waitlist_entry_except(exc) ==
    IF exc.type = "IntegrityError"
    THEN HTTPException(HTTP_409_CONFLICT, "Email already registered")
    ELSE exc

\* the except clauses of check_email_exists / get_waitlist_count: log and re-raise
reraise(exc) == exc

\* the except clauses of add_to_waitlist
add_to_waitlist_except(exc) ==
    IF exc.type = "HTTPException"
    THEN exc
    ELSE HTTPException(HTTP_500_INTERNAL_SERVER_ERROR,
                       "An unexpected error occurred. Please try again later.")

\* ---------------------------------------------------------------- Brevo sync
\* BrevoSyncStatus / WaitlistStatus enum values
SUCCESS == "success"
FAILED == "failed"
PENDING == "pending"

NoSync == [status |-> "", contact_id |-> None, error_code |-> ""]

\* mutant: the except clause does not tell the failures apart
add_contact_to_list_LumpFailures(reply) ==
    CASE reply.kind = "response" ->
            [status |-> SUCCESS, contact_id |-> StrOfId(reply.id), error_code |-> ""]
      [] reply.kind = "ApiException" /\ reply.status = 400 /\ reply.already ->
            [status |-> SUCCESS, contact_id |-> None, error_code |-> ""]
      [] OTHER ->
            [status |-> FAILED, contact_id |-> None, error_code |-> "BREVO_API_ERROR"]

\* mutant: "Contact already exist" is classified like any other API error
add_contact_to_list_AlreadyExistsFails(reply) ==
    CASE reply.kind = "response" ->
            [status |-> SUCCESS, contact_id |-> StrOfId(reply.id), error_code |-> ""]
      [] reply.kind = "ApiException" /\ reply.status = 401 ->
            [status |-> FAILED, contact_id |-> None, error_code |-> "BREVO_AUTH_FAILED"]
      [] reply.kind = "ApiException" /\ reply.status = 404 ->
            [status |-> FAILED, contact_id |-> None, error_code |-> "BREVO_LIST_NOT_FOUND"]
      [] reply.kind = "ApiException" ->
            [status |-> FAILED, contact_id |-> None, error_code |-> "BREVO_API_ERROR"]
      [] OTHER ->
            [status |-> FAILED, contact_id |-> None, error_code |-> "BREVO_UNEXPECTED_ERROR"]

\* BrevoService.add_contact_to_list: the dict returned for each reply of the
\* remote API (every exception is caught and classified)
add_contact_to_list(reply) ==
    CASE reply.kind = "response" ->
            [status |-> SUCCESS, contact_id |-> StrOfId(reply.id), error_code |-> ""]
      [] reply.kind = "ApiException" /\ reply.status = 400 /\ reply.already ->
            [status |-> SUCCESS, contact_id |-> None, error_code |-> ""]
      [] reply.kind = "ApiException" /\ reply.status = 401 ->
            [status |-> FAILED, contact_id |-> None, error_code |-> "BREVO_AUTH_FAILED"]
      [] reply.kind = "ApiException" /\ reply.status = 404 ->
            [status |-> FAILED, contact_id |-> None, error_code |-> "BREVO_LIST_NOT_FOUND"]
      [] reply.kind = "ApiException" ->
            [status |-> FAILED, contact_id |-> None, error_code |-> "BREVO_API_ERROR"]
      [] OTHER ->
            [status |-> FAILED, contact_id |-> None, error_code |-> "BREVO_UNEXPECTED_ERROR"]

\* ---------------------------------------------------------------- state
VARIABLES
    waitlist,   \* the committed rows of table waitlist
    id_seq,     \* last value handed out by the SERIAL sequence of waitlist.id
    now,        \* the latest reading of the wall clock (datetime.now())
    req,        \* per request: where the handler is, and its local variables
    app,        \* the application: "starting", "running" or "aborted"
    env,        \* the environment variables the process was started with
    get         \* per GET request / endpoint call: what was asked and answered

vars == <<waitlist, id_seq, now, req, app, env, get>>

\* mutant: brevo_synced_at is set whatever the sync status
NewRow_AlwaysSynced(i, email, name, referral_source, contact_id, sync_status, t) ==
    [id |-> i, email |-> email, name |-> name, referral_source |-> referral_source,
     status |-> PENDING, brevo_contact_id |-> contact_id,
     brevo_sync_status |-> sync_status, brevo_synced_at |-> t, created_at |-> t]

\* mutant: the sync status is not passed on, the column keeps its default
NewRow_DefaultStatus(i, email, name, referral_source, contact_id, sync_status, t) ==
    [id |-> i, email |-> email, name |-> name, referral_source |-> referral_source,
     status |-> PENDING, brevo_contact_id |-> contact_id,
     brevo_sync_status |-> PENDING, brevo_synced_at |-> NoTime, created_at |-> t]

\* mutant: a signup whose sync succeeded is stored as confirmed
NewRow_Confirmed(i, email, name, referral_source, contact_id, sync_status, t) ==
    [id |-> i, email |-> email, name |-> name, referral_source |-> referral_source,
     status |-> IF sync_status = SUCCESS THEN "confirmed" ELSE PENDING,
     brevo_contact_id |-> contact_id, brevo_sync_status |-> sync_status,
     brevo_synced_at |-> IF sync_status = SUCCESS THEN t ELSE NoTime, created_at |-> t]

\* a row of table waitlist as written by the INSERT of add_waitlist_entry
NewRow(i, email, name, referral_source, contact_id, sync_status, t) ==
    [id |-> i,
     email |-> email,
     name |-> name,
     referral_source |-> referral_source,
     status |-> PENDING,
     brevo_contact_id |-> contact_id,
     brevo_sync_status |-> sync_status,
     brevo_synced_at |-> IF sync_status = SUCCESS THEN t ELSE NoTime,
     created_at |-> t]

\* mutant: the existence check never finds a row
RowsWithEmail_NotFound(e) == {}

\* SELECT ... FROM waitlist WHERE email = %s (committed rows)
RowsWithEmail(e) == {w \in waitlist : w.email = e}

\* SELECT COUNT(*) FROM waitlist
CountRows == Cardinality(waitlist)

\* mutant: the email column carries no UNIQUE constraint
UniqueViolation_NoConstraint(e) == FALSE

\* mutant: the constraint rejects an insert whenever the table holds a row
UniqueViolation_AnyRow(e) == waitlist # {}

\* the UNIQUE constraint on waitlist.email: does inserting `e` violate it
UniqueViolation(e) == \E w \in waitlist : w.email = e

\* mutant: the position query compares with < instead of <=
PositionOf_Strict(row) == Cardinality({w \in waitlist \cup {row} : w.created_at < row.created_at})

\* SELECT COUNT(*) FROM waitlist WHERE created_at <= %s, run inside the inserting
\* transaction: the committed rows and the transaction's own row
PositionOf(row) == Cardinality({w \in waitlist \cup {row} : w.created_at <= row.created_at})

\* ---------------------------------------------------------------- routes
\* request paths, as sequences of segments
PathHealth == <<"api", "health">>
PathWaitlist == <<"api", "waitlist">>
PathCount == <<"api", "waitlist", "count">>
PathBrevoStatus == <<"api", "brevo", "status">>
PathRoot == <<>>
CatchAll == <<"{full_path:path}">>

\* the paths clients send GET requests to
GetPaths == {PathHealth, PathCount, PathBrevoStatus, PathRoot}

\* app.routes: the path operations in the order their decorators ran
Routes ==
    << [path |-> CatchAll, method |-> "GET", endpoint |-> "serve_frontend"],
       [path |-> PathHealth, method |-> "GET", endpoint |-> "health_check"],
       [path |-> PathWaitlist, method |-> "POST", endpoint |-> "add_to_waitlist"],
       [path |-> PathCount, method |-> "GET", endpoint |-> "get_waitlist_count"],
       [path |-> PathBrevoStatus, method |-> "GET", endpoint |-> "brevo_connection_status"] >>

\* Route.matches: the path pattern matches ({full_path:path} matches every
\* path) and the method is one of the route's
FullMatch(route, method, path) ==
    /\ route.path = CatchAll \/ route.path = path
    /\ route.method = method

\* Router: the endpoint of the first route that matches fully
Dispatch(method, path) ==
    LET hits == {i \in 1..Len(Routes) : FullMatch(Routes[i], method, path)} IN
    IF hits = {} THEN "not_found"
    ELSE Routes[CHOOSE i \in hits : \A j \in hits : i <= j].endpoint

\* ---------------------------------------------------------------- responses
NoResp ==
    [status_code |-> 0, has_success |-> FALSE, success |-> FALSE,
     message |-> "", warning |-> "", error_code |-> "", error |-> "",
     email |-> None, position |-> 0, registered_at |-> NoTime,
     brevo_sync_status |-> "",
     body |-> "",            \* which JSON object the body is
     status |-> "",          \* health: "status"
     database |-> "",        \* health: services.database.status
     connected |-> FALSE,    \* health / sync status: brevo.connected
     database_error |-> "",  \* health: services.database.error
     brevo_error |-> "",     \* health / sync status: brevo.error
     count |-> NoCount]      \* count / health: the number of rows reported

\* FastAPI's reply to a body that fails EmailSubmission validation
ValidationErrorResponse ==
    [NoResp EXCEPT !.status_code = HTTP_422_UNPROCESSABLE, !.error = "value_error",
                   !.body = "detail"]

\* http_exception_handler: the JSON body built from an HTTPException
http_exception_handler(exc) ==
    [NoResp EXCEPT !.status_code = exc.status_code, !.has_success = TRUE,
                   !.success = FALSE, !.error = exc.detail, !.body = "error"]

\* mutant: the duplicate response carries no registration time
DuplicateResponse_NoTimestamp(email, existing) ==
    [NoResp EXCEPT !.status_code = HTTP_201_CREATED, !.has_success = TRUE,
                   !.body = "WaitlistResponse",
                   !.success = FALSE,
                   !.message = "This email has already been registered!",
                   !.error_code = "EMAIL_ALREADY_EXISTS",
                   !.email = email]

\* add_to_waitlist, duplicate branch: WaitlistResponse for an existing row
DuplicateResponse(email, existing) ==
    [NoResp EXCEPT !.status_code = HTTP_201_CREATED, !.has_success = TRUE,
                   !.body = "WaitlistResponse",
                   !.success = FALSE,
                   !.message = "This email has already been registered!",
                   !.error_code = "EMAIL_ALREADY_EXISTS",
                   !.email = email,
                   !.registered_at = existing.created_at]

\* mutant: the response never carries the sync warning
SuccessResponse_NoWarning(entry, position, brevo_result) ==
    [NoResp EXCEPT !.status_code = HTTP_201_CREATED, !.has_success = TRUE,
                   !.body = "WaitlistResponse",
                   !.success = TRUE,
                   !.message = "You've been added to the waitlist!",
                   !.email = entry.email,
                   !.position = position,
                   !.registered_at = entry.created_at,
                   !.brevo_sync_status = brevo_result.status]

\* add_to_waitlist, final WaitlistResponse for the created entry
SuccessResponse(entry, position, brevo_result) ==
    [NoResp EXCEPT !.status_code = HTTP_201_CREATED, !.has_success = TRUE,
                   !.body = "WaitlistResponse",
                   !.success = TRUE,
                   !.message = "You've been added to the waitlist!",
                   !.warning = IF brevo_result.status = FAILED
                               THEN " (Note: Email confirmation may be delayed)"
                               ELSE "",
                   !.email = entry.email,
                   !.position = position,
                   !.registered_at = entry.created_at,
                   !.brevo_sync_status = brevo_result.status]

\* ---------------------------------------------------------------- GET endpoints
\* replies of account_api.get_account: the account, an ApiException or another
\* exception
AccountReplies ==
    { [kind |-> "response", status |-> 200, text |-> ""],
      [kind |-> "ApiException", status |-> 401, text |-> "(401) Reason: Unauthorized"],
      [kind |-> "Exception", status |-> 0, text |-> "Connection timed out"] }

NoAccount == [kind |-> "none", status |-> 0, text |-> ""]

\* BrevoService.test_connection: every exception becomes connected=False
test_connection(reply) ==
    [connected |-> reply.kind = "response",
     error |-> IF reply.kind = "response" THEN "" ELSE reply.text]

\* str(e): the message of a driver error, the detail of an HTTPException
StrOfExc(exc) == exc.detail

\* what DatabaseService.get_waitlist_count() raises under a store outcome
CountRaises(outcome) == reraise(get_db_connection(ExcOf(outcome), outcome # "lost"))

\* serve_frontend: 404 for the paths that start with "api", the built frontend
\* (or the note that it is not built) for the others
serve_frontend(full_path) ==
    IF full_path # <<>> /\ full_path[1] = "api"
    THEN http_exception_handler(HTTPException(HTTP_404_NOT_FOUND, "API route not found"))
    ELSE [NoResp EXCEPT !.status_code = HTTP_200_OK, !.body = "frontend"]

\* mutant: only the database decides the composite status
health_status_IgnoreBrevo(db_ok, connected) == IF db_ok THEN "healthy" ELSE "degraded"

\* health_check: "healthy" unless one of the two checks sets "degraded"
health_status(db_ok, connected) == IF db_ok /\ connected THEN "healthy" ELSE "degraded"

\* health_check: the health_data dict
health_check(outcome, reply) ==
    LET db_ok == CountRaises(outcome).type = "None"
        brevo_status == test_connection(reply)
    IN  [NoResp EXCEPT !.status_code = HTTP_200_OK, !.body = "health",
                       !.status = health_status(db_ok, brevo_status.connected),
                       !.database = IF db_ok THEN "healthy" ELSE "unhealthy",
                       !.count = IF db_ok THEN CountRows ELSE NoCount,
                       !.connected = brevo_status.connected,
                       !.database_error = StrOfExc(CountRaises(outcome)),
                       !.brevo_error = brevo_status.error]

\* the endpoint get_waitlist_count of GET /api/waitlist/count
get_waitlist_count(outcome) ==
    IF CountRaises(outcome).type = "None"
    THEN [NoResp EXCEPT !.status_code = HTTP_200_OK, !.body = "count",
                        !.has_success = TRUE, !.success = TRUE, !.count = CountRows]
    ELSE http_exception_handler(
             HTTPException(HTTP_500_INTERNAL_SERVER_ERROR, "Failed to get waitlist count"))

\* brevo_connection_status: {timestamp, brevo, list_id}
brevo_connection_status(reply) ==
    [NoResp EXCEPT !.status_code = HTTP_200_OK, !.body = "brevo",
                   !.connected = test_connection(reply).connected,
                   !.brevo_error = test_connection(reply).error]

\* the endpoints that read the store / call the remote account API
UsesStore(endpoint) == endpoint \in {"health_check", "get_waitlist_count"}
UsesBrevo(endpoint) == endpoint \in {"health_check", "brevo_connection_status"}

\* the response of an endpoint
Endpoint(endpoint, path, outcome, reply) ==
    CASE endpoint = "serve_frontend" -> serve_frontend(path)
      [] endpoint = "health_check" -> health_check(outcome, reply)
      [] endpoint = "get_waitlist_count" -> get_waitlist_count(outcome)
      [] endpoint = "brevo_connection_status" -> brevo_connection_status(reply)
      [] OTHER -> [NoResp EXCEPT !.status_code = HTTP_404_NOT_FOUND, !.body = "detail",
                                 !.error = "Not Found"]

\* a GET request / endpoint call before it is made
InitGet ==
    [pc |-> "idle",
     via |-> "",              \* "http": through the router; "call": the function
     path |-> PathRoot,       \* the request path
     endpoint |-> "",         \* the endpoint that ran
     db |-> "",               \* how the store read went, if one was made
     account |-> NoAccount,   \* what the remote account API answered, if asked
     rows |-> NoCount,        \* the rows in the table when the store was read
     resp |-> NoResp]         \* the response

\* the GET request / endpoint call as answered
Served(via, path, endpoint, outcome, reply) ==
    [pc |-> "done",
     via |-> via,
     path |-> path,
     endpoint |-> endpoint,
     db |-> IF UsesStore(endpoint) THEN outcome ELSE "",
     account |-> IF UsesBrevo(endpoint) THEN reply ELSE NoAccount,
     rows |-> IF UsesStore(endpoint) /\ outcome = "ok" THEN CountRows ELSE NoCount,
     resp |-> Endpoint(endpoint, path, outcome, reply)]

\* ---------------------------------------------------------------- requests
\* a request before it is received
InitReq ==
    [pc |-> "idle",
     prior |-> {},                  \* the requests already answered when it arrived
     raw |-> NoPayload,             \* the body as posted
     email |-> None,                \* submission.email
     name |-> None,                 \* submission.name
     referral_source |-> None,      \* submission.referral_source
     checks |-> 0,                  \* existence checks (SELECT by email) completed
     existing |-> {},               \* existing, the row check_email_exists returned
     hint |-> 0,                    \* get_waitlist_count() + 1, passed to the sync
     reply |-> NoReply,             \* what contacts_api.create_contact answered
     brevo |-> NoSync,              \* brevo_result
     at |-> NoTime,                 \* datetime.now() as evaluated for the INSERT
     syncs |-> 0,                   \* calls of contacts_api.create_contact made
     inserts |-> 0,                 \* INSERT statements executed
     entry |-> {},                  \* the row its INSERT ... RETURNING returned
     opened |-> 0,                  \* connections psycopg2.connect returned
     closed |-> 0,                  \* conn.close() calls
     commits |-> 0,                 \* conn.commit() calls that returned
     rollbacks |-> 0,               \* conn.rollback() calls
     position |-> 0,                \* entry["position"]
     raised |-> NoExc,              \* the exception raised by the store, if any
     resp |-> NoResp]               \* the response sent to the client

\* the application is up, started with a complete environment
Init ==
    /\ waitlist = {}
    /\ id_seq = 0
    /\ now = 0
    /\ req = [r \in Requests |-> InitReq]
    /\ env = [DATABASE_URL |-> "postgresql://db/waitlist", BREVO_API_KEY |-> "xkeysib-1",
              BREVO_WAITLIST_ID |-> "12", FRONTEND_URL |-> "https://lavoo.app"]
    /\ app = "running"
    /\ get = [g \in Gets |-> InitGet]

\* the table as earlier runs of the process left it: empty, or holding the row
\* of a signup whose sync failed
EarlierRows ==
    { {}, {NewRow(1, <<"a", "@", "x">>, None, None, None, FAILED, 0)} }

\* the process has been started in some environment and has imported the module
InitApi ==
    /\ waitlist \in EarlierRows
    /\ id_seq = Cardinality(waitlist)
    /\ now = 0
    /\ req = [r \in Requests |-> InitReq]
    /\ env \in Envs
    /\ app = "starting"
    /\ get = [g \in Gets |-> InitGet]

\* the row inserted by r's open transaction and not yet committed
Uncommitted(r) == IF req[r].pc \in {"position", "commit"} THEN req[r].entry ELSE {}

\* mutant: the INSERT does not wait for a concurrent insert of the same email
BlockedByIndex_NoWait(r) == FALSE

\* another open transaction holds an uncommitted row with this email: the
\* INSERT waits on the unique index until that transaction ends
BlockedByIndex(r) ==
    \E q \in Requests \ {r} : \E w \in Uncommitted(q) : w.email = req[r].email

\* the handler is running in a worker
InFlight(r) == req[r].pc \notin {"idle", "done"}

\* psycopg2.connect returned a connection to the request
Opened(q) == [q EXCEPT !.opened = @ + 1]

\* the request leaves a `with get_db_connection()` block with `exc`
Left(q, connected, exc) ==
    LET x == ConnectionExit(connected, exc) IN
    [q EXCEPT !.commits = @ + (IF x.committed THEN 1 ELSE 0),
              !.rollbacks = @ + (IF x.rollback THEN 1 ELSE 0),
              !.closed = @ + (IF x.closed THEN 1 ELSE 0)]

\* the request runs a whole `with get_db_connection()` block in one step
Ran(q, outcome) ==
    Left(IF outcome = "down" THEN q ELSE Opened(q), outcome # "down", ExcOf(outcome))

\* the request ends with the exception `exc` leaving the handler's try block;
\* `orig` is what the store raised first; get_db_connection has rolled back the
\* open transaction, so the row of r.entry is discarded with it
Aborted(q, orig, exc) ==
    [q EXCEPT !.pc = "done",
              !.raised = orig,
              !.resp = http_exception_handler(add_to_waitlist_except(exc))]

\* POST /api/waitlist arrives: FastAPI validates the body into EmailSubmission
Submit(r, p) ==
    /\ app = "running"
    /\ Dispatch("POST", PathWaitlist) = "add_to_waitlist"
    /\ req[r].pc = "idle"
    /\ \A q \in Requests : q < r => req[q].pc # "idle"
    /\ IF EmailStrValid(p.email)
       THEN req' = [req EXCEPT
                ![r].pc = "check",
                ![r].prior = {q \in Requests : req[q].pc = "done"},
                ![r].raw = p,
                ![r].email = email_must_be_lowercase(EmailStrValue(p.email)),
                ![r].name = name_must_be_clean(p.name),
                ![r].referral_source = p.referral_source]
       ELSE req' = [req EXCEPT
                ![r].pc = "done",
                ![r].prior = {q \in Requests : req[q].pc = "done"},
                ![r].raw = p,
                ![r].resp = ValidationErrorResponse]
    /\ UNCHANGED <<waitlist, id_seq, now, app, env, get>>

\* mutant: a duplicate submission overwrites the name of the stored row
CheckEmailExists_Upsert(r) ==
    /\ req[r].pc = "check"
    /\ \E outcome \in StoreOutcomes :
         LET q == Ran(req[r], outcome) IN
         IF outcome # "ok"
         THEN /\ req' = [req EXCEPT ![r] = Aborted(q, OperationalError,
                         reraise(get_db_connection(OperationalError, outcome # "lost")))]
              /\ waitlist' = waitlist
         ELSE LET found == RowsWithEmail(req[r].email) IN
              IF found # {}
              THEN LET existing == CHOOSE w \in found : TRUE IN
                   /\ req' = [req EXCEPT ![r] = [q EXCEPT
                          !.pc = "done",
                          !.checks = @ + 1,
                          !.existing = {existing},
                          !.resp = DuplicateResponse(q.email, existing)]]
                   /\ waitlist' = (waitlist \ {existing})
                                     \cup {[existing EXCEPT !.name = q.name]}
              ELSE /\ req' = [req EXCEPT ![r] = [q EXCEPT !.pc = "count", !.checks = @ + 1]]
                   /\ waitlist' = waitlist
    /\ UNCHANGED <<id_seq, now, app, env, get>>

\* Step 1: DatabaseService.check_email_exists, then the duplicate branch
CheckEmailExists(r) ==
    /\ req[r].pc = "check"
    /\ \E outcome \in StoreOutcomes :
         LET q == Ran(req[r], outcome) IN
         IF outcome # "ok"
         THEN req' = [req EXCEPT ![r] = Aborted(q, OperationalError,
                         reraise(get_db_connection(OperationalError, outcome # "lost")))]
         ELSE LET found == RowsWithEmail(req[r].email) IN
              IF found # {}
              THEN LET existing == CHOOSE w \in found : TRUE IN
                   req' = [req EXCEPT ![r] = [q EXCEPT
                       !.pc = "done",
                       !.checks = @ + 1,
                       !.existing = {existing},
                       !.resp = DuplicateResponse(q.email, existing)]]
              ELSE req' = [req EXCEPT ![r] = [q EXCEPT !.pc = "count", !.checks = @ + 1]]
    /\ UNCHANGED <<waitlist, id_seq, now, app, env, get>>

\* Step 2, argument: position = DatabaseService.get_waitlist_count() + 1
GetWaitlistCount(r) ==
    /\ req[r].pc = "count"
    /\ \E outcome \in StoreOutcomes :
         LET q == Ran(req[r], outcome) IN
         IF outcome # "ok"
         THEN req' = [req EXCEPT ![r] = Aborted(q, OperationalError,
                         reraise(get_db_connection(OperationalError, outcome # "lost")))]
         ELSE req' = [req EXCEPT ![r] = [q EXCEPT !.pc = "sync", !.hint = CountRows + 1]]
    /\ UNCHANGED <<waitlist, id_seq, now, app, env, get>>

\* mutant: a remote call that times out is waited for without end
AddContactToList_Hang(r) ==
    /\ req[r].pc = "sync"
    /\ \E reply \in BrevoReplies :
         LET q == [req[r] EXCEPT !.syncs = @ + 1, !.reply = reply,
                                 !.brevo = add_contact_to_list(reply)] IN
         req' = [req EXCEPT ![r] = [q EXCEPT
                    !.pc = IF reply.kind = "Exception" THEN "hung" ELSE "connect"]]
    /\ UNCHANGED <<waitlist, id_seq, now, app, env, get>>

\* mutant: a failed sync is raised to the client instead of being recorded
AddContactToList_RaiseOnFailure(r) ==
    /\ req[r].pc = "sync"
    /\ \E reply \in BrevoReplies :
         LET q == [req[r] EXCEPT !.syncs = @ + 1, !.reply = reply,
                                 !.brevo = add_contact_to_list(reply)] IN
         IF q.brevo.status = FAILED
         THEN req' = [req EXCEPT ![r] = Aborted(q, NoExc,
                         HTTPException(HTTP_500_INTERNAL_SERVER_ERROR, "Sync failed"))]
         ELSE req' = [req EXCEPT ![r] = [q EXCEPT !.pc = "connect"]]
    /\ UNCHANGED <<waitlist, id_seq, now, app, env, get>>

\* mutant: an exception that is not an ApiException leaves the adapter
AddContactToList_UncaughtException(r) ==
    /\ req[r].pc = "sync"
    /\ \E reply \in BrevoReplies :
         LET q == [req[r] EXCEPT !.syncs = @ + 1, !.reply = reply,
                                 !.brevo = add_contact_to_list(reply)] IN
         IF reply.kind = "Exception"
         THEN req' = [req EXCEPT ![r] = Aborted(q, NoExc,
                         [type |-> "Exception", status_code |-> 0, detail |-> "timeout"])]
         ELSE req' = [req EXCEPT ![r] = [q EXCEPT !.pc = "connect"]]
    /\ UNCHANGED <<waitlist, id_seq, now, app, env, get>>

\* mutant: a failed sync is attempted a second time
AddContactToList_Retry(r) ==
    /\ req[r].pc = "sync"
    /\ \E reply \in BrevoReplies :
         LET q == [req[r] EXCEPT !.syncs = @ + 1, !.reply = reply,
                                 !.brevo = add_contact_to_list(reply)] IN
         req' = [req EXCEPT ![r] = [q EXCEPT
                    !.pc = IF q.brevo.status = FAILED /\ q.syncs < 2
                           THEN "sync" ELSE "connect"]]
    /\ UNCHANGED <<waitlist, id_seq, now, app, env, get>>

\* Step 2: brevo_service.add_contact_to_list
AddContactToList(r) ==
    /\ req[r].pc = "sync"
    /\ \E reply \in BrevoReplies :
         req' = [req EXCEPT ![r].pc = "connect",
                            ![r].syncs = @ + 1,
                            ![r].reply = reply,
                            ![r].brevo = add_contact_to_list(reply)]
    /\ UNCHANGED <<waitlist, id_seq, now, app, env, get>>

\* Step 3: DatabaseService.add_waitlist_entry opens its connection (no
\* connection, nothing to roll back, when that fails) and evaluates the INSERT's
\* parameters, datetime.now() among them (dt: the time that passed since the
\* clock was last read)
Connect(r) ==
    /\ req[r].pc = "connect"
    /\ \E outcome \in {"ok", "down"} :
         IF outcome # "ok"
         THEN /\ req' = [req EXCEPT ![r] =
                     Aborted(Left(req[r], FALSE, OperationalError), OperationalError,
                         add_waitlist_entry_except(get_db_connection(OperationalError, TRUE)))]
              /\ UNCHANGED now
         ELSE \E dt \in {0, 1} :
              /\ now + dt <= MaxTime
              /\ now' = now + dt
              /\ req' = [req EXCEPT ![r] =
                     [Opened(req[r]) EXCEPT !.pc = "insert", !.at = now + dt]]
    /\ UNCHANGED <<waitlist, id_seq, app, env, get>>

\* Step 3, continued: INSERT INTO waitlist ... RETURNING
InsertEntry(r) ==
    /\ req[r].pc = "insert"
    /\ LET q == [req[r] EXCEPT !.inserts = @ + 1] IN
       \E outcome \in StatementOutcomes :
         IF outcome # "ok"
         THEN /\ req' = [req EXCEPT ![r] =
                     Aborted(Left(q, TRUE, OperationalError), OperationalError,
                         add_waitlist_entry_except(
                             get_db_connection(OperationalError, outcome # "lost")))]
              /\ UNCHANGED id_seq
         ELSE /\ ~BlockedByIndex(r)
              /\ id_seq' = id_seq + 1
              /\ IF UniqueViolation(req[r].email)
                 THEN req' = [req EXCEPT ![r] =
                          Aborted(Left(q, TRUE, IntegrityError), IntegrityError,
                              add_waitlist_entry_except(get_db_connection(IntegrityError, TRUE)))]
                 ELSE req' = [req EXCEPT ![r] = [q EXCEPT
                          !.pc = "position",
                          !.entry = {NewRow(id_seq + 1, q.email, q.name,
                                            q.referral_source, q.brevo.contact_id,
                                            q.brevo.status, q.at)}]]
    /\ UNCHANGED <<waitlist, now, app, env, get>>

\* mutant: the connection autocommits, a failing position query leaves the row
PositionQuery_NoRollback(r) ==
    /\ req[r].pc = "position"
    /\ \E outcome \in StatementOutcomes :
         IF outcome # "ok"
         THEN /\ req' = [req EXCEPT ![r] =
                     Aborted(Left(req[r], TRUE, OperationalError), OperationalError,
                         add_waitlist_entry_except(
                             get_db_connection(OperationalError, outcome # "lost")))]
              /\ waitlist' = waitlist \cup req[r].entry
         ELSE /\ req' = [req EXCEPT
                     ![r].pc = "commit",
                     ![r].position = PositionOf(CHOOSE w \in req[r].entry : TRUE)]
              /\ UNCHANGED waitlist
    /\ UNCHANGED <<id_seq, now, app, env, get>>

\* Step 3, continued: SELECT COUNT(*) ... WHERE created_at <= %s
PositionQuery(r) ==
    /\ req[r].pc = "position"
    /\ \E outcome \in StatementOutcomes :
         IF outcome # "ok"
         THEN req' = [req EXCEPT ![r] =
                  Aborted(Left(req[r], TRUE, OperationalError), OperationalError,
                      add_waitlist_entry_except(
                          get_db_connection(OperationalError, outcome # "lost")))]
         ELSE req' = [req EXCEPT
                  ![r].pc = "commit",
                  ![r].position = PositionOf(CHOOSE w \in req[r].entry : TRUE)]
    /\ UNCHANGED <<waitlist, id_seq, now, app, env, get>>

\* mutant: a failing commit is swallowed and the handler goes on
Commit_SwallowFault(r) ==
    /\ req[r].pc = "commit"
    /\ \E outcome \in StatementOutcomes :
         /\ waitlist' = IF outcome # "ok" THEN waitlist ELSE waitlist \cup req[r].entry
         /\ req' = [req EXCEPT ![r] =
                [Left(req[r], TRUE, ExcOf(outcome)) EXCEPT !.pc = "respond"]]
    /\ UNCHANGED <<id_seq, now, app, env, get>>

\* Step 3, end: leaving the with-block commits (get_db_connection after yield)
\* (the store is taken to be atomic: a commit that raises has stored nothing)
Commit(r) ==
    /\ req[r].pc = "commit"
    /\ \E outcome \in StatementOutcomes :
         IF outcome # "ok"
         THEN /\ req' = [req EXCEPT ![r] =
                     Aborted(Left(req[r], TRUE, OperationalError), OperationalError,
                         add_waitlist_entry_except(
                             get_db_connection(OperationalError, outcome # "lost")))]
              /\ UNCHANGED waitlist
         ELSE /\ waitlist' = waitlist \cup req[r].entry
              /\ req' = [req EXCEPT ![r] =
                     [Left(req[r], TRUE, NoExc) EXCEPT !.pc = "respond"]]
    /\ UNCHANGED <<id_seq, now, app, env, get>>

\* "Prepare response": the WaitlistResponse of a new signup
Respond(r) ==
    /\ req[r].pc = "respond"
    /\ req' = [req EXCEPT
           ![r].pc = "done",
           ![r].resp = SuccessResponse(CHOOSE w \in req[r].entry : TRUE,
                                       req[r].position, req[r].brevo)]
    /\ UNCHANGED <<waitlist, id_seq, now, app, env, get>>

\* startup_event: Config.validate decides whether the application comes up; a
\* failing initialize_schema or test_connection is logged and startup goes on
StartupEvent ==
    /\ app = "starting"
    /\ app' = IF validate(Config(env)).valid THEN "running" ELSE "aborted"
    /\ UNCHANGED <<waitlist, id_seq, now, req, env, get>>

\* a GET request arrives and is answered by the endpoint the router picks
Get(g, path) ==
    /\ app = "running"
    /\ get[g].pc = "idle"
    /\ \A h \in Gets : h < g => get[h].pc # "idle"
    /\ \E outcome \in StoreOutcomes : \E reply \in AccountReplies :
         get' = [get EXCEPT ![g] =
                    Served("http", path, Dispatch("GET", path), outcome, reply)]
    /\ UNCHANGED <<waitlist, id_seq, now, req, app, env>>

\* the endpoint function of a GET route is called
Call(g, route) ==
    /\ app = "running"
    /\ get[g].pc = "idle"
    /\ \A h \in Gets : h < g => get[h].pc # "idle"
    /\ route.method = "GET" /\ route.path # CatchAll
    /\ \E outcome \in StoreOutcomes : \E reply \in AccountReplies :
         get' = [get EXCEPT ![g] =
                    Served("call", route.path, route.endpoint, outcome, reply)]
    /\ UNCHANGED <<waitlist, id_seq, now, req, app, env>>

Next ==
    \/ \E r \in Requests, p \in Payloads : Submit(r, p)
    \/ \E r \in Requests : CheckEmailExists(r)
    \/ \E r \in Requests : GetWaitlistCount(r)
    \/ \E r \in Requests : AddContactToList(r)
    \/ \E r \in Requests : Connect(r)
    \/ \E r \in Requests : InsertEntry(r)
    \/ \E r \in Requests : PositionQuery(r)
    \/ \E r \in Requests : Commit(r)
    \/ \E r \in Requests : Respond(r)

Spec == Init /\ [][Next]_vars

\* a step of the handler working on submission r
Step(r) ==
    \/ CheckEmailExists(r)
    \/ GetWaitlistCount(r)
    \/ AddContactToList(r)
    \/ Connect(r)
    \/ InsertEntry(r)
    \/ PositionQuery(r)
    \/ Commit(r)
    \/ Respond(r)

\* the handler is straight-line code: it goes on whenever the store or sync
\* call it waits for has returned or failed
FairSpec == Spec /\ \A r \in Requests : WF_vars(Step(r))

\* startup, the GET endpoints and one submission next to them
NextApi ==
    \/ StartupEvent
    \/ \E g \in Gets, path \in GetPaths : Get(g, path)
    \/ \E g \in Gets, i \in 1..Len(Routes) : Call(g, Routes[i])
    \/ \E p \in Payloads : Submit(1, p)
    \/ CheckEmailExists(1)
    \/ GetWaitlistCount(1)
    \/ AddContactToList(1)
    \/ Connect(1)
    \/ InsertEntry(1)
    \/ PositionQuery(1)
    \/ Commit(1)
    \/ Respond(1)

SpecApi == InitApi /\ [][NextApi]_vars

\* ================================================================ properties
\* vocabulary of the properties
Done(r) == req[r].pc = "done"
Valid(r) == req[r].pc # "idle" /\ req[r].email # None
Succeeded(r) == Done(r) /\ req[r].resp.success
IsDuplicate(r) == Done(r) /\ req[r].resp.error_code = "EMAIL_ALREADY_EXISTS"
\* the store failed under the request (connection lost, server down)
StoreFault(r) == req[r].raised.type = "OperationalError"
\* the request's INSERT hit the unique constraint
HitUnique(r) == req[r].raised.type = "IntegrityError"
\* the normalized emails the inputs can produce
Emails == {email_must_be_lowercase(EmailStrValue(p.email)) : p \in {q \in Payloads : EmailStrValid(q.email)}}
\* the answered requests for email e that passed the existence check and whose
\* INSERT was decided by the table alone (no store fault)
Racers(e) ==
    {r \in Requests : Done(r) /\ Valid(r) /\ req[r].email = e
                      /\ ~IsDuplicate(r) /\ ~StoreFault(r)}

\* C1: in every reachable state no two stored waitlist rows have the same email
C1_UniqueEmail ==
    \A w1 \in waitlist : \A w2 \in waitlist : w1.email = w2.email => w1 = w2

\* C1 witness: a request's INSERT was rejected by the unique constraint while
\* another row is stored, and the one row with its email is there
C1_Witness ==
    \E r \in Requests :
        HitUnique(r) /\ Cardinality(RowsWithEmail(req[r].email)) = 1

\* C2: when two (or more) submissions of the same new email both pass the
\* existence check and both run their INSERT, exactly one row with that email is
\* stored and exactly one of them returns a success result
C2_RaceSafety ==
    \A e \in Emails :
        Cardinality(Racers(e)) >= 2 =>
            /\ Cardinality(RowsWithEmail(e)) = 1
            /\ Cardinality({r \in Racers(e) : Succeeded(r)}) = 1

\* C2 witness: two answered submissions of one email that both passed the check
C2_Witness ==
    \E e \in Emails :
        /\ Cardinality(Racers(e)) >= 2
        /\ \E r \in Racers(e) : Succeeded(r)
        /\ \E r \in Racers(e) : HitUnique(r)

\* C3 (as claimed): a submission whose INSERT fails with a uniqueness violation
\* is answered EMAIL_ALREADY_EXISTS or with a conflict status, not with a generic
\* internal failure
C3_UniqueViolationReportedAsDuplicate ==
    \A r \in Requests :
        (Done(r) /\ HitUnique(r)) =>
            \/ req[r].resp.error_code = "EMAIL_ALREADY_EXISTS"
            \/ req[r].resp.status_code = HTTP_409_CONFLICT

\* r1 had been answered when r2 arrived: the two submissions are sequential
Before(r1, r2) == r1 \in req[r2].prior

\* C4: submitting an email twice sequentially (the store not failing under
\* either call) yields exactly one stored row: the second call returns
\* success=false with EMAIL_ALREADY_EXISTS, executes no INSERT and makes no sync
\* call, and the row is the one the first call wrote
C4_SequentialDuplicate ==
    \A r1 \in Requests : \A r2 \in Requests :
        ( /\ Before(r1, r2) /\ Done(r2)
          /\ Valid(r1) /\ Valid(r2) /\ req[r1].email = req[r2].email
          /\ ~StoreFault(r1) /\ ~StoreFault(r2) )
        => /\ Cardinality(RowsWithEmail(req[r2].email)) = 1
           /\ IsDuplicate(r2) /\ ~req[r2].resp.success
           /\ req[r2].inserts = 0 /\ req[r2].syncs = 0 /\ req[r2].entry = {}
           /\ Succeeded(r1) =>
                 /\ RowsWithEmail(req[r2].email) = req[r1].entry
                 /\ \A w \in req[r1].entry : req[r2].resp.registered_at = w.created_at

\* C4 witness: a successful signup followed by a second submission of its email
C4_Witness ==
    \E r1 \in Requests : \E r2 \in Requests :
        /\ Before(r1, r2) /\ Succeeded(r1) /\ IsDuplicate(r2)
        /\ req[r1].raw = req[r2].raw

\* two characters equal up to letter case
SameLetter(c, d) ==
    c = d \/ {c, d} \in {{"a", "A"}, {"b", "B"}, {"c", "C"}, {"x", "X"}}

\* u and v are the same address up to letter case and surrounding blanks
SameAddress(u, v) ==
    \E i \in 1..Len(u) : \E j \in i..Len(u) : \E k \in 1..Len(v) :
        /\ k + (j - i) <= Len(v)
        /\ u[i] # " " /\ u[j] # " "
        /\ \A n \in 1..Len(u) : (n < i \/ n > j) => u[n] = " "
        /\ \A n \in 1..Len(v) : (n < k \/ n > k + (j - i)) => v[n] = " "
        /\ \A n \in 0..(j - i) : SameLetter(u[i + n], v[k + n])

\* no upper-case letter and no blank at either end
InNormalForm(e) ==
    /\ \A i \in 1..Len(e) : e[i] \notin {"A", "B", "C", "X"}
    /\ e # <<>> /\ e[1] # " " /\ e[Len(e)] # " "

\* C5: email identity is case- and whitespace-insensitive: every stored email is
\* in normalized form (trimmed, lower-cased), submissions whose addresses differ
\* only in letter case or surrounding blanks carry the same email into every
\* comparison and write, and the later of two such sequential submissions is
\* answered as a duplicate
C5_CaseInsensitiveIdentity ==
    /\ \A w \in waitlist : InNormalForm(w.email)
    /\ \A r \in Requests : Valid(r) => InNormalForm(req[r].email)
    /\ \A r1 \in Requests : \A r2 \in Requests :
          (Valid(r1) /\ Valid(r2) /\ SameAddress(req[r1].raw.email, req[r2].raw.email))
          => /\ req[r1].email = req[r2].email
             /\ (Before(r1, r2) /\ Succeeded(r1) /\ Done(r2) /\ ~StoreFault(r2))
                   => IsDuplicate(r2)

\* C5 witness: an address is stored, then a variant of it in another letter case
\* is submitted and answered as a duplicate
C5_Witness ==
    \E r1 \in Requests : \E r2 \in Requests :
        /\ Before(r1, r2) /\ Succeeded(r1) /\ IsDuplicate(r2)
        /\ req[r1].raw.email # req[r2].raw.email
        /\ SameAddress(req[r1].raw.email, req[r2].raw.email)
        /\ \E i \in 1..Len(req[r2].raw.email) : req[r2].raw.email[i] = "A"

\* C6: if the sync reports a failure for a new email and the store does not
\* fail, the signup succeeds: a row is stored with brevo_sync_status=failed and
\* the response reports success=true with the warning appended to the message
C6_SyncIndependence ==
    \A r \in Requests :
        (Done(r) /\ req[r].brevo.status = FAILED /\ req[r].raised = NoExc)
        => /\ req[r].resp.success
           /\ req[r].resp.status_code = HTTP_201_CREATED
           /\ req[r].resp.warning # ""
           /\ req[r].resp.brevo_sync_status = FAILED
           /\ \E w \in waitlist :
                 w.email = req[r].email /\ w.brevo_sync_status = FAILED

\* C6 witness: a signup answered after the sync failed on authentication
C6_Witness ==
    \E r \in Requests :
        /\ Done(r) /\ req[r].brevo.error_code = "BREVO_AUTH_FAILED"
        /\ req[r].raised = NoExc /\ req[r].resp.success

\* the requests that account for the stored row w: the one whose INSERT returned
\* it and that has answered with success, or is building that answer
Owners(w) ==
    {r \in Requests : req[r].entry = {w} /\ (Succeeded(r) \/ req[r].pc = "respond")}

\* C7: no signup is silently lost or double-counted: every success result has
\* exactly one committed row with its email, committed before the result was
\* returned, no two success results are for the same email, and every stored
\* row belongs to exactly one submission, whose result is success
C7_NoLostNoDoubleCounted ==
    /\ \A r \in Requests :
          Succeeded(r) =>
              /\ req[r].entry # {} /\ req[r].entry \subseteq waitlist
              /\ RowsWithEmail(req[r].resp.email) = req[r].entry
    /\ \A r1 \in Requests : \A r2 \in Requests :
          (Succeeded(r1) /\ Succeeded(r2) /\ r1 # r2)
              => req[r1].resp.email # req[r2].resp.email
    /\ \A w \in waitlist : Cardinality(Owners(w)) = 1

\* C7 witness: a success result next to a failed submission of the same email
\* whose transaction was rolled back
C7_Witness ==
    \E r1 \in Requests : \E r2 \in Requests :
        /\ Succeeded(r1) /\ Done(r2) /\ StoreFault(r2)
        /\ req[r2].email = req[r1].email /\ req[r2].entry # {}
        /\ Cardinality(waitlist) = 1

\* r ran alone: every other request received so far was answered before r
\* arrived, or arrived after r was answered
Sequential(r) ==
    \A q \in Requests \ {r} : req[q].pc # "idle" => (Before(q, r) \/ Before(r, q))

\* C8: without concurrency, starting from the empty table, the k-th successful
\* signup returns position k; N distinct emails submitted one after another
\* return 1, 2, ..., N
C8_PositionMonotonicity ==
    \A r \in Requests :
        (Succeeded(r) /\ Sequential(r))
        => req[r].resp.position = Cardinality({q \in req[r].prior : Succeeded(q)}) + 1

\* C8 witness: NumRequests sequential signups of distinct emails
C8_Witness ==
    /\ \A q \in Requests : Sequential(q) /\ req[q].prior = 1..(q - 1)
    /\ \A q \in Requests : Succeeded(q) /\ req[q].resp.position = q
    /\ \A q \in Requests : \A r \in Requests : q # r => req[q].email # req[r].email

GenericErrors ==
    {"Database operation failed", "An unexpected error occurred",
     "An unexpected error occurred. Please try again later."}

\* C10: if the store fails during a submission's write (connect, INSERT,
\* position query or commit), no row of that submission persists, every stored
\* row is one another submission wrote, and the caller receives a generic failure
C10_FailedWriteLeavesNoRow ==
    \A r \in Requests :
        (Done(r) /\ StoreFault(r) /\ req[r].syncs > 0)
        => /\ req[r].entry \cap waitlist = {}
           /\ \A w \in waitlist : \E q \in Requests \ {r} : req[q].entry = {w}
           /\ req[r].resp.status_code = HTTP_500_INTERNAL_SERVER_ERROR
           /\ ~req[r].resp.success
           /\ req[r].resp.error_code = ""
           /\ req[r].resp.error \in GenericErrors

\* C10 witness: the store failed after the INSERT and the position query
C10_Witness ==
    \E r \in Requests :
        /\ Done(r) /\ StoreFault(r)
        /\ req[r].entry # {} /\ req[r].position > 0
        /\ req[r].entry \cap waitlist = {}

\* the remote API refused the contact or could not be reached
RemoteFailure(reply) ==
    reply.kind \in {"ApiException", "Exception"} /\ ~(reply.status = 400 /\ reply.already)

\* the error codes of the adapter under the names the claim gives them
ClaimedName(code) ==
    CASE code = "BREVO_AUTH_FAILED" -> "AUTH_FAILED"
      [] code = "BREVO_LIST_NOT_FOUND" -> "LIST_NOT_FOUND"
      [] code = "BREVO_UNEXPECTED_ERROR" -> "UNEXPECTED"
      [] OTHER -> code

\* C14 (as claimed): the adapter classifies every remote failure as failed with
\* AUTH_FAILED for an authentication failure, LIST_NOT_FOUND for a missing
\* target list and UNEXPECTED for any other remote error or transport failure
C14_AsClaimed ==
    \A r \in Requests :
        (req[r].syncs > 0 /\ RemoteFailure(req[r].reply))
        => /\ req[r].brevo.status = FAILED
           /\ ClaimedName(req[r].brevo.error_code) =
                 CASE req[r].reply.kind = "ApiException" /\ req[r].reply.status = 401 -> "AUTH_FAILED"
                   [] req[r].reply.kind = "ApiException" /\ req[r].reply.status = 404 -> "LIST_NOT_FOUND"
                   [] OTHER -> "UNEXPECTED"

\* C14 (amended): every remote failure yields status failed; the error code is
\* BREVO_AUTH_FAILED for status 401, BREVO_LIST_NOT_FOUND for status 404,
\* BREVO_API_ERROR for any other error answer of the remote API, and
\* BREVO_UNEXPECTED_ERROR for any exception that is not an answer of the API
C14_FailureClassification ==
    \A r \in Requests :
        (req[r].syncs > 0 /\ RemoteFailure(req[r].reply))
        => /\ req[r].brevo.status = FAILED
           /\ req[r].brevo.contact_id = None
           /\ req[r].brevo.error_code =
                 CASE req[r].reply.kind = "Exception" -> "BREVO_UNEXPECTED_ERROR"
                   [] req[r].reply.status = 401 -> "BREVO_AUTH_FAILED"
                   [] req[r].reply.status = 404 -> "BREVO_LIST_NOT_FOUND"
                   [] OTHER -> "BREVO_API_ERROR"

\* C14 witness: the remote API answered 400 for another reason than an existing
\* contact and the signup was stored with the failed status
C14_Witness ==
    \E r \in Requests :
        /\ Succeeded(r)
        /\ req[r].reply.kind = "ApiException" /\ req[r].reply.status = 400
        /\ ~req[r].reply.already
        /\ req[r].brevo.error_code = "BREVO_API_ERROR"

\* C15: when the remote API reports that the contact already exists, the
\* adapter returns status success, the row of that signup is inserted with
\* brevo_sync_status=success and the response reports that status
C15_AlreadyExistsIsSuccess ==
    \A r \in Requests :
        (req[r].syncs > 0 /\ req[r].reply.kind = "ApiException" /\ req[r].reply.already)
        => /\ req[r].brevo.status = SUCCESS
           /\ req[r].brevo.error_code = ""
           /\ \A w \in req[r].entry : w.brevo_sync_status = SUCCESS
           /\ Succeeded(r) =>
                 /\ req[r].resp.brevo_sync_status = SUCCESS
                 /\ req[r].resp.warning = ""
                 /\ \A w \in RowsWithEmail(req[r].email) : w.brevo_sync_status = SUCCESS

\* C15 witness: a stored signup whose contact already existed remotely
C15_Witness ==
    \E r \in Requests :
        /\ Succeeded(r) /\ req[r].reply.already
        /\ \E w \in waitlist : w.email = req[r].email /\ w.brevo_contact_id = None

\* C16: the adapter never raises to the handler: an exception thrown by the
\* remote call becomes a failed outcome and the submission goes on to the store
\* insert; only the store can make such a submission fail
C16_SyncNeverRaises ==
    \A r \in Requests :
        (req[r].syncs > 0 /\ req[r].reply.kind \in {"ApiException", "Exception"})
        => /\ req[r].brevo # NoSync
           /\ req[r].reply.kind = "Exception" => req[r].brevo.status = FAILED
           /\ req[r].pc \in {"connect", "insert", "position", "commit", "respond", "done"}
           /\ Done(r) =>
                 /\ req[r].raised = NoExc => Succeeded(r)
                 /\ req[r].raised.type # "OperationalError" => req[r].inserts = 1

\* C16 witness: the remote call threw an exception that is not an API answer and
\* the signup was stored
C16_Witness ==
    \E r \in Requests :
        /\ Succeeded(r) /\ req[r].reply.kind = "Exception"
        /\ req[r].inserts = 1 /\ req[r].entry \subseteq waitlist

\* C17: a submission makes at most one sync call and at most one INSERT, the
\* sync call only after its existence check found no row, and the INSERT only
\* after the sync call; a sequential duplicate submission makes neither
C17_SingleAttempt ==
    /\ \A r \in Requests :
          /\ req[r].syncs <= 1 /\ req[r].inserts <= 1
          /\ req[r].syncs > 0 => (req[r].checks = 1 /\ req[r].existing = {})
          /\ req[r].inserts > 0 => req[r].syncs = 1
          /\ req[r].existing # {} => (req[r].syncs = 0 /\ req[r].inserts = 0)
    /\ \A r1 \in Requests : \A r2 \in Requests :
          ( /\ Before(r1, r2) /\ Succeeded(r1) /\ Done(r2)
            /\ req[r1].email = req[r2].email /\ req[r2].checks = 1 )
          => (req[r2].existing # {} /\ req[r2].syncs = 0 /\ req[r2].inserts = 0)

\* C17 witness: a signup with one sync call and one INSERT, then a duplicate
\* submission of its email with neither
C17_Witness ==
    \E r1 \in Requests : \E r2 \in Requests :
        /\ Before(r1, r2) /\ Succeeded(r1)
        /\ req[r1].syncs = 1 /\ req[r1].inserts = 1
        /\ req[r2].existing = req[r1].entry
        /\ req[r2].checks = 1 /\ req[r2].syncs = 0 /\ req[r2].inserts = 0

\* the store operations of r that returned normally: the existence checks, the
\* count for the sync call and the insert
OperationsReturned(r) ==
    req[r].checks + (IF req[r].hint > 0 THEN 1 ELSE 0)
                  + (IF req[r].pc \in {"respond", "done"} /\ req[r].position > 0
                        /\ req[r].raised = NoExc THEN 1 ELSE 0)

\* C18: every store operation runs on a connection of its own, whose transaction
\* is committed if the operation succeeds and rolled back if it fails, and the
\* connection is closed on every exit path: a request holds a connection only
\* while its insert is running, and none after an operation returned or raised
C18_TransactionScope ==
    \A r \in Requests :
        /\ req[r].opened - req[r].closed =
              IF req[r].pc \in {"insert", "position", "commit"} THEN 1 ELSE 0
        /\ req[r].commits + req[r].rollbacks = req[r].closed
        /\ req[r].commits = OperationsReturned(r)
        /\ req[r].rollbacks <= 1
        /\ req[r].rollbacks = 1 =>
              (Done(r) /\ req[r].raised # NoExc /\ req[r].entry \cap waitlist = {})
        /\ (Done(r) /\ req[r].raised # NoExc) =>
              req[r].opened = req[r].commits + req[r].rollbacks

\* C18 witness: a request whose insert lost its connection after two committed
\* reads: three connections opened, three closed
C18_Witness ==
    \E r \in Requests :
        /\ Done(r) /\ req[r].resp.error = "An unexpected error occurred. Please try again later."
        /\ req[r].entry # {}
        /\ req[r].opened = 3 /\ req[r].closed = 3
        /\ req[r].commits = 2 /\ req[r].rollbacks = 1

\* vocabulary of the properties of the GET endpoints
Answered(g) == get[g].pc = "done"
OverHttp(g, path) == Answered(g) /\ get[g].via = "http" /\ get[g].path = path
StoreFailed(g) == get[g].db \in StoreOutcomes \ {"ok"}

\* C11 (as claimed): a GET /api/health request returns the composite health
\* object, not an error response, and when the store is unreachable the object
\* says status=degraded and database status=unhealthy
C11_AsClaimed ==
    \A g \in Gets :
        OverHttp(g, PathHealth)
        => /\ get[g].resp.body = "health"
           /\ get[g].resp.status_code = HTTP_200_OK
           /\ StoreFailed(g) =>
                 (get[g].resp.status = "degraded" /\ get[g].resp.database = "unhealthy")

\* C12: the health check operation never raises: it returns the health object,
\* whose status is degraded exactly when the database check failed or the sync
\* connection test reported not connected and healthy exactly when both are
\* fine; a failing check shows as database status unhealthy / connected false
C12_HealthComposite ==
    \A g \in Gets :
        (Answered(g) /\ get[g].endpoint = "health_check")
        => /\ get[g].resp.body = "health"
           /\ get[g].resp.status_code = HTTP_200_OK
           /\ get[g].resp.status \in {"healthy", "degraded"}
           /\ get[g].resp.status = "degraded"
                 <=> (StoreFailed(g) \/ get[g].account.kind # "response")
           /\ get[g].resp.status = "healthy"
                 <=> (get[g].db = "ok" /\ get[g].account.kind = "response")
           /\ get[g].resp.database = (IF StoreFailed(g) THEN "unhealthy" ELSE "healthy")
           /\ get[g].resp.connected <=> get[g].account.kind = "response"
           /\ get[g].db = "ok" => get[g].resp.count = get[g].rows

\* C12 witness: the health check ran while the remote API refused the key and
\* the store answered
C12_Witness ==
    \E g \in Gets :
        /\ Answered(g) /\ get[g].endpoint = "health_check"
        /\ get[g].db = "ok" /\ get[g].account.kind = "ApiException"
        /\ get[g].resp.status = "degraded" /\ get[g].resp.database = "healthy"

\* C13 (as claimed): a GET /api/waitlist/count request returns {success, count,
\* timestamp} with count the number of rows stored at the time of the request
C13_AsClaimed ==
    \A g \in Gets :
        (OverHttp(g, PathCount) /\ ~StoreFailed(g))
        => /\ get[g].resp.body = "count"
           /\ get[g].resp.has_success /\ get[g].resp.success
           /\ get[g].rows # NoCount /\ get[g].resp.count = get[g].rows

\* the configuration values the claim calls required, by environment variable
ClaimedRequired == {"DATABASE_URL", "BREVO_API_KEY", "BREVO_WAITLIST_ID", "FRONTEND_URL"}

\* C19 (as claimed): if any one of the database connection string, the API key,
\* the target-list identifier and the allowed origin list is absent, startup
\* aborts and the application never reaches the running state
C19_AsClaimed ==
    (\E name \in ClaimedRequired : env[name] = Unset) => app # "running"

\* the environment gives the three validated values
Configured ==
    /\ env.DATABASE_URL # Unset
    /\ env.BREVO_API_KEY \notin {Unset, "''"}
    /\ env.BREVO_WAITLIST_ID \notin {Unset, "0"}

\* C19 (amended): if the database connection string, the API key or the
\* target-list identifier is absent (or empty, or zero), startup aborts, the
\* application never reaches the running state and serves no request; with
\* these three given startup completes, whether or not an origin is configured
C19_FailFast ==
    /\ ~Configured => app \in {"starting", "aborted"}
    /\ app # "running" =>
          /\ \A r \in Requests : req[r].pc = "idle"
          /\ \A g \in Gets : get[g].pc = "idle"
    /\ (Configured /\ app # "starting") => app = "running"

\* C19 witness: startup aborted because only the list identifier is missing
C19_Witness ==
    /\ app = "aborted"
    /\ env.DATABASE_URL # Unset /\ env.BREVO_API_KEY = "xkeysib-1"
    /\ env.BREVO_WAITLIST_ID = Unset /\ env.FRONTEND_URL # Unset

\* C20 (as claimed): every response of the API, to a submission or to a GET
\* request under /api, carries a success flag
C20_AsClaimed ==
    /\ \A r \in Requests : Done(r) => req[r].resp.has_success
    /\ \A g \in Gets :
          (Answered(g) /\ get[g].via = "http" /\ get[g].path # PathRoot)
              => get[g].resp.has_success

\* the texts of driver errors and of exceptions of the remote API
RawErrorTexts ==
    {IntegrityError.detail, OperationalError.detail}
    \cup {reply.text : reply \in {a \in AccountReplies : a.kind # "response"}}

\* the text fields of a response body
TextsOf(resp) ==
    {resp.message, resp.warning, resp.error, resp.database_error, resp.brevo_error}

\* C21 (as claimed): no response body (signup, count, health or sync status)
\* contains the text of a database driver error or of an exception of the
\* external API
C21_AsClaimed ==
    /\ \A r \in Requests : Done(r) => TextsOf(req[r].resp) \cap RawErrorTexts = {}
    /\ \A g \in Gets : Answered(g) => TextsOf(get[g].resp) \cap RawErrorTexts = {}

\* the rows inserted by submissions: stored, or in a transaction still open
Inserted == waitlist \cup UNION {Uncommitted(r) : r \in Requests}

\* C22: a submission whose email is found by the existence check returns
\* success=false with EMAIL_ALREADY_EXISTS and the registered_at of the stored
\* row, which is the time its creating submission assigned at the insert
C22_DuplicateCarriesRegistration ==
    \A r \in Requests :
        (Done(r) /\ req[r].existing # {})
        => /\ req[r].resp.has_success /\ ~req[r].resp.success
           /\ req[r].resp.error_code = "EMAIL_ALREADY_EXISTS"
           /\ req[r].resp.email = req[r].email
           /\ \E w \in waitlist : \E q \in Requests \ {r} :
                 /\ req[r].existing = {w} /\ w.email = req[r].email
                 /\ req[q].entry = {w} /\ req[q].at = w.created_at
                 /\ req[r].resp.registered_at = req[q].at

\* C22 witness: a row inserted at time 1 and a duplicate submission answered
\* with that time
C22_Witness ==
    \E r \in Requests : \E q \in Requests :
        /\ IsDuplicate(r) /\ Succeeded(q) /\ req[q].at = 1
        /\ req[r].resp.registered_at = 1

\* C23: for every row, brevo_synced_at is non-null exactly when
\* brevo_sync_status is success, and brevo_contact_id is non-null only then
C23_SyncFieldsAgree ==
    \A w \in Inserted :
        /\ w.brevo_synced_at # NoTime <=> w.brevo_sync_status = SUCCESS
        /\ w.brevo_contact_id # None => w.brevo_sync_status = SUCCESS

\* C23 witness: a stored row of a successful sync with a contact id next to a
\* stored row of a failed sync
C23_Witness ==
    \E w1 \in waitlist : \E w2 \in waitlist :
        /\ w1.brevo_sync_status = SUCCESS /\ w1.brevo_contact_id # None
        /\ w1.brevo_synced_at # NoTime
        /\ w2.brevo_sync_status = FAILED /\ w2.brevo_contact_id = None
        /\ w2.brevo_synced_at = NoTime

\* C24: every row carries the status and contact id of the sync outcome its
\* creating submission obtained, that submission's success response reports
\* the stored status, and no row has brevo_sync_status pending
C24_RowCarriesSyncOutcome ==
    \A w \in Inserted :
        /\ w.brevo_sync_status # PENDING
        /\ \E r \in Requests :
              /\ req[r].entry = {w}
              /\ req[r].syncs = 1
              /\ w.brevo_sync_status = add_contact_to_list(req[r].reply).status
              /\ w.brevo_contact_id = add_contact_to_list(req[r].reply).contact_id
              /\ Succeeded(r) => req[r].resp.brevo_sync_status = w.brevo_sync_status

\* C24 witness: a stored row whose submission was told that the contact exists
C24_Witness ==
    \E r \in Requests : \E w \in waitlist :
        /\ Succeeded(r) /\ req[r].entry = {w}
        /\ req[r].reply.kind = "ApiException" /\ req[r].reply.already
        /\ w.brevo_sync_status = SUCCESS /\ w.brevo_contact_id = None
        /\ req[r].resp.brevo_sync_status = SUCCESS

\* C25: every row has status pending in every reachable state
C25_StatusPending ==
    \A w \in Inserted : w.status = PENDING

\* C25 witness: both submissions are answered and their rows are stored
C25_Witness ==
    /\ \A r \in Requests : Succeeded(r)
    /\ Cardinality(waitlist) = NumRequests
    /\ \E w \in waitlist : w.brevo_sync_status = SUCCESS

\* C28: submissions of distinct new emails do not interfere: whatever the
\* interleaving, when the store does not fail under them each of them returns
\* a success result and one row is stored for each email
C28_DistinctEmailsIndependent ==
    \A r1 \in Requests : \A r2 \in Requests \ {r1} :
        ( /\ Done(r1) /\ Done(r2) /\ Valid(r1) /\ Valid(r2)
          /\ req[r1].email # req[r2].email
          /\ ~StoreFault(r1) /\ ~StoreFault(r2) )
        => /\ Succeeded(r1) /\ Succeeded(r2)
           /\ RowsWithEmail(req[r1].email) = req[r1].entry
           /\ RowsWithEmail(req[r2].email) = req[r2].entry
           /\ Cardinality(waitlist) = 2

\* C28 witness: two submissions of distinct emails that ran concurrently, their
\* sync calls succeeded, and both are answered with success
C28_Witness ==
    \E r1 \in Requests : \E r2 \in Requests :
        /\ r1 # r2 /\ ~Before(r1, r2) /\ ~Before(r2, r1)
        /\ Succeeded(r1) /\ Succeeded(r2)
        /\ req[r1].email # req[r2].email
        /\ req[r1].brevo.status = SUCCESS /\ req[r2].brevo.status = SUCCESS
        /\ req[r1].hint = 1 /\ req[r2].hint = 1

\* a step of one of the read-only operations: the existence check or the count
\* of a submission, any step of a duplicate submission, a GET request or a call
\* of a GET endpoint (health check, count, sync status)
ReadOnlyStep ==
    \/ \E r \in Requests : req[r].pc \in {"check", "count"} /\ req'[r] # req[r]
    \/ \E r \in Requests : req'[r].existing # {} /\ req'[r] # req[r]
    \/ \E g \in Gets : get'[g] # get[g]

\* C26: a stored row is never deleted or modified: every step keeps each row
\* with all its fields, so the row count never decreases, and a step of a
\* read-only operation leaves the table as it was
C26_StoredRowsAreFrozen ==
    [][ /\ waitlist \subseteq waitlist'
        /\ Cardinality(waitlist') >= Cardinality(waitlist)
        /\ ReadOnlyStep => waitlist' = waitlist ]_vars

\* C26 witness: the row of an earlier signup is still stored as it was after a
\* duplicate submission of its email, a health check and a count were answered
C26_Witness ==
    /\ waitlist = {NewRow(1, <<"a", "@", "x">>, None, None, None, FAILED, 0)}
    /\ \E r \in Requests : IsDuplicate(r) /\ req[r].name # None
    /\ \E g1 \in Gets : \E g2 \in Gets :
          /\ Answered(g1) /\ get[g1].endpoint = "health_check" /\ get[g1].db = "ok"
          /\ Answered(g2) /\ get[g2].endpoint = "get_waitlist_count"
          /\ get[g2].resp.count = 1

\* the three outcomes of a submission
OutcomeSuccess(r) ==
    /\ req[r].resp.has_success /\ req[r].resp.success
    /\ req[r].resp.status_code = HTTP_201_CREATED /\ req[r].resp.error_code = ""
OutcomeDuplicate(r) ==
    /\ req[r].resp.has_success /\ ~req[r].resp.success
    /\ req[r].resp.error_code = "EMAIL_ALREADY_EXISTS"
OutcomeGenericFailure(r) ==
    /\ req[r].resp.has_success /\ ~req[r].resp.success
    /\ req[r].resp.error_code = ""
    /\ req[r].resp.status_code = HTTP_500_INTERNAL_SERVER_ERROR
    /\ req[r].resp.error \in GenericErrors
OutcomesOf(r) ==
    {o \in {"success", "duplicate", "failure"} :
        \/ o = "success" /\ OutcomeSuccess(r)
        \/ o = "duplicate" /\ OutcomeDuplicate(r)
        \/ o = "failure" /\ OutcomeGenericFailure(r)}

\* C27: every submission that reached the handler is eventually answered,
\* whatever the other submissions do or did, provided each store and sync call
\* returns or fails (a submission stays submitted and stays answered, so this
\* is: from some point on every submitted one is answered); it is answered
\* with exactly one of success, duplicate and
\* generic failure, and an exception on the request path ends in the generic
\* internal-error response
C27_EverySubmissionAnswered ==
    /\ <>[](\A r \in Requests : Valid(r) => Done(r))
    /\ [](\A r \in Requests :
            (Valid(r) /\ Done(r)) => Cardinality(OutcomesOf(r)) = 1)
    /\ [](\A r \in Requests :
            (Done(r) /\ req[r].raised # NoExc) => OutcomeGenericFailure(r))

\* C27 witness: a submission ended in the generic failure after an exception
\* that was not a database error of the driver's handled kind, and a submission
\* that arrived after it was answered with success
C27_Witness ==
    \E r1 \in Requests : \E r2 \in Requests :
        /\ Before(r1, r2)
        /\ Done(r1) /\ OutcomeGenericFailure(r1)
        /\ req[r1].resp.error = "An unexpected error occurred. Please try again later."
        /\ Succeeded(r2) /\ OutcomeSuccess(r2)

====
